---- MODULE Spec2Model ----
(***************************************************************************)
(* Model of the MigTD IGVM verifier (tools/migtd-igvm-verifier) and of the *)
(* standalone policy verifier (tools/migtd-policy-verifier).               *)
(*                                                                         *)
(* Bytes are naturals 0..255 and buffers are sequences of bytes.  A u64 is *)
(* kept at its width as four 16-bit limbs, least significant first, since  *)
(* the arithmetic of extract_cfv_from_igvm is on u64/usize values that the *)
(* input controls.  usize is 64 bits wide (x86_64 target).                 *)
(***************************************************************************)
EXTENDS Integers, Sequences, FiniteSets, TLC

(* ----------------------------- bounds ---------------------------------- *)
\* most page-data directives in an image
MaxPages == 2
\* most file records in a firmware volume
MaxFiles == 2

(* ------------------------- u64 arithmetic ------------------------------ *)
Limb == 256 * 256

U64FromNat(n) == <<n % Limb, (n \div Limb) % Limb, 0, 0>>

U64_MAX == <<Limb - 1, Limb - 1, Limb - 1, Limb - 1>>

\* isize::MAX, the largest capacity a Vec<u8> can have
ISIZE_MAX == <<Limb - 1, Limb - 1, Limb - 1, (Limb \div 2) - 1>>

U64ToNat(a) == a[1] + Limb * a[2]

U64Less(a, b) ==
    \/ a[4] < b[4]
    \/ a[4] = b[4] /\ a[3] < b[3]
    \/ a[4] = b[4] /\ a[3] = b[3] /\ a[2] < b[2]
    \/ a[4] = b[4] /\ a[3] = b[3] /\ a[2] = b[2] /\ a[1] < b[1]

U64Leq(a, b) == a = b \/ U64Less(a, b)

\* a + b: the wrapped sum and whether the true sum exceeds u64::MAX
U64Add(a, b) ==
    LET s1 == a[1] + b[1]
        s2 == a[2] + b[2] + s1 \div Limb
        s3 == a[3] + b[3] + s2 \div Limb
        s4 == a[4] + b[4] + s3 \div Limb
    IN  [val |-> <<s1 % Limb, s2 % Limb, s3 % Limb, s4 % Limb>>,
         overflow |-> s4 \div Limb = 1]

\* a - b for b <= a
U64Sub(a, b) ==
    LET d1 == a[1] - b[1]
        c1 == IF d1 < 0 THEN 1 ELSE 0
        d2 == a[2] - b[2] - c1
        c2 == IF d2 < 0 THEN 1 ELSE 0
        d3 == a[3] - b[3] - c2
        c3 == IF d3 < 0 THEN 1 ELSE 0
        d4 == a[4] - b[4] - c3
    IN  <<d1 + c1 * Limb, d2 + c2 * Limb, d3 + c3 * Limb, d4>>

\* u64::from_le_bytes of eight bytes
from_le_bytes(b) ==
    <<b[1] + 256 * b[2], b[3] + 256 * b[4], b[5] + 256 * b[6], b[7] + 256 * b[8]>>

\* the eight little-endian bytes of a u64 (used to build input images)
to_le_bytes(a) ==
    <<a[1] % 256, a[1] \div 256, a[2] % 256, a[2] \div 256,
      a[3] % 256, a[3] \div 256, a[4] % 256, a[4] \div 256>>

(* ------------------------- byte buffers -------------------------------- *)
Zeros(n) == [i \in 1..n |-> 0]

\* b[from..to) with 0-based bounds, as a Rust slice
Slice(b, from, to) == SubSeq(b, from + 1, to)

\* b"_FVH"
fvh_signature == <<95, 70, 86, 72>>

\* offset of the signature in the FV header
FVH_SIG_OFFSET == 40

\* mutant of FV_LENGTH_OFFSET: the length is read eight bytes too early
FV_LENGTH_OFFSET_early == 32 - 8

\* offset of the fv_length field in the FV header
FV_LENGTH_OFFSET == 32

\* mutant of SigPosition: the last occurrence (rposition) instead of the first
SigPositionLast(b) ==
    LET hits == {i \in 0..(Len(b) - 4) : Slice(b, i, i + 4) = fvh_signature}
    IN  IF hits = {} THEN -1
        ELSE CHOOSE i \in hits : \A j \in hits : j <= i

\* cfv_data.windows(4).position(|w| w == fvh_signature); -1 stands for None
SigPosition(b) ==
    LET hits == {i \in 0..(Len(b) - 4) : Slice(b, i, i + 4) = fvh_signature}
    IN  IF hits = {} THEN -1
        ELSE CHOOSE i \in hits : \A j \in hits : i <= j

(* ----------------------- region reconstruction ------------------------- *)
\* const CFV_GPA: u64 = 0x2000000
CFV_GPA_N == 33554432

CFV_GPA == U64FromNat(CFV_GPA_N)

Ok(d) == [status |-> "ok", data |-> d]

Err(m) == [status |-> "err", data |-> <<>>, msg |-> m]

\* a panic of the Rust runtime: the process aborts with exit status 101
Panic(m) == [status |-> "panic", data |-> <<>>, msg |-> m]

RECURSIVE InsertByGpa(_, _)
\* p goes behind every page whose key is not greater: the sort is stable
InsertByGpa(s, p) ==
    IF s = <<>> THEN <<p>>
    ELSE IF U64Leq(Head(s).gpa, p.gpa) THEN <<Head(s)>> \o InsertByGpa(Tail(s), p)
    ELSE <<p>> \o s

RECURSIVE SortByGpa(_)
\* all_pages.sort_by_key(|(gpa, _)| *gpa)
SortByGpa(s) ==
    IF s = <<>> THEN <<>>
    ELSE InsertByGpa(SortByGpa(SubSeq(s, 1, Len(s) - 1)), s[Len(s)])

\* the page the loop appends: *gpa >= start_gpa && *gpa < end_gpa
InRange(gpa, start_gpa, end_gpa) == U64Leq(start_gpa, gpa) /\ U64Less(gpa, end_gpa)

RECURSIVE ExtendAll(_, _, _)
\* for (gpa, data) in &all_pages { if in range { cfv_data.extend_from_slice(data) } }
ExtendAll(pages, start_gpa, end_gpa) ==
    IF pages = <<>> THEN <<>>
    ELSE (IF InRange(Head(pages).gpa, start_gpa, end_gpa) THEN Head(pages).data ELSE <<>>)
         \o ExtendAll(Tail(pages), start_gpa, end_gpa)

\* mutant of FindCfv: the first page at or above CFV_GPA is taken for the CFV
FindCfvAtOrAbove(all_pages) ==
    \E i \in 1..Len(all_pages) :
        U64Leq(CFV_GPA, all_pages[i].gpa) /\ all_pages[i].data # <<>>

\* all_pages.iter().find(|(gpa, data)| *gpa == CFV_GPA && !data.is_empty())
FindCfv(all_pages) ==
    \E i \in 1..Len(all_pages) :
        all_pages[i].gpa = CFV_GPA /\ all_pages[i].data # <<>>

\* the page-collection part of extract_cfv_from_igvm
CollectRegion(dirs, size, checks) ==
    IF dirs = <<>> THEN Err("No page data found in IGVM file")
    ELSE
      LET all_pages == SortByGpa(dirs)
          found == FindCfv(all_pages)
          sum == U64Add(CFV_GPA, size)
          data == ExtendAll(all_pages, CFV_GPA, sum.val)
          len == U64FromNat(Len(data))
          padding == U64Sub(size, len)
      IN  IF ~found THEN Err("CFV not found at expected GPA")
          ELSE IF sum.overflow /\ checks THEN Panic("attempt to add with overflow")
          ELSE IF U64Less(len, size)
               THEN IF U64Less(ISIZE_MAX, padding) THEN Panic("capacity overflow")
                    ELSE Ok(data \o Zeros(U64ToNat(padding)))
               ELSE Ok(data)

(* ---------------------- volume header resolution ----------------------- *)
\* the FV-header part of extract_cfv_from_igvm
ResolveHeader(buf, checks) ==
    LET offset == SigPosition(buf)
        fv_start == offset - FVH_SIG_OFFSET
        fv_length == from_le_bytes(Slice(buf, fv_start + FV_LENGTH_OFFSET,
                                         fv_start + FV_LENGTH_OFFSET + 8))
        sum == U64Add(U64FromNat(fv_start), fv_length)
    IN  IF offset = -1 THEN Ok(buf)
        ELSE IF ~(offset >= FVH_SIG_OFFSET) THEN Ok(buf)
        ELSE IF ~(fv_start + FVH_SIG_OFFSET < Len(buf)) THEN Ok(buf)
        ELSE IF sum.overflow /\ checks THEN Panic("attempt to add with overflow")
        ELSE IF U64Leq(sum.val, U64FromNat(Len(buf)))
             THEN IF U64Less(sum.val, U64FromNat(fv_start))
                  THEN Panic("slice index starts after its end")
                  ELSE Ok(Slice(buf, fv_start, U64ToNat(sum.val)))
             ELSE Ok(Slice(buf, fv_start, Len(buf)))

(* ------------------------ keyed file extraction ------------------------ *)
\* pi::fv::FV_FILETYPE_RAW
FV_FILETYPE_RAW == 1

\* a type tag that is not RAW
OtherFileType == FV_FILETYPE_RAW + 1

\* Guid::from_fields(0x0BE92DC3, 0x6221, 0x4C98, 0x87, 0xC1, [8E EF FD 70 DE 5A])
MIGTD_POLICY_FFS_GUID ==
    <<199765443, 25121, 19608, 135, 193, <<142, 239, 253, 112, 222, 90>> >>

\* Guid::from_fields(0x3F2FB27A, 0x9596, 0x431C, 0xA6, 0x8D, [D3 EA B3 9F 8A EB])
MIGTD_POLICY_ISSUER_CHAIN_FFS_GUID ==
    <<1060090490, 38294, 17180, 166, 141, <<211, 234, 179, 159, 138, 235>> >>

RECURSIVE get_file_from_fv(_, _, _)
\* the firmware-volume parser: the first record, in file-table order, whose
\* type tag and identifier both match; <<>> stands for None
get_file_from_fv(files, fv_file_type, file_name) ==
    IF files = <<>> THEN <<>>
    ELSE IF Head(files).type = fv_file_type /\ Head(files).name = file_name
         THEN <<Head(files).data>>
         ELSE get_file_from_fv(Tail(files), fv_file_type, file_name)

\* mutant of extract_file_from_cfv: the wrong type tag is handed to the parser
extract_file_from_cfv_wrong_type(files, guid) ==
    LET file_data == get_file_from_fv(files, OtherFileType, guid)
    IN  IF file_data = <<>> THEN Err("Unable to find file with GUID in CFV")
        ELSE Ok(file_data[1])

\* extract_file_from_cfv(cfv_data, guid)
extract_file_from_cfv(files, guid) ==
    LET file_data == get_file_from_fv(files, FV_FILETYPE_RAW, guid)
    IN  IF file_data = <<>> THEN Err("Unable to find file with GUID in CFV")
        ELSE Ok(file_data[1])

(* ------------------------------ inputs --------------------------------- *)
None == <<>>

Some(x) == <<x>>

\* a firmware-volume header with fv_length v, followed by one byte of content
FvHeader(v) == Zeros(32) \o to_le_bytes(v) \o <<95, 70, 86, 72>> \o <<9>>

\* bytes of a header up to and including its signature
HeaderLen == 32 + 8 + 4

PageGpas == {U64FromNat(CFV_GPA_N - 1), CFV_GPA, U64FromNat(CFV_GPA_N + 2)}

PageDatas ==
    {<<>>, <<1>>, <<2, 3>>, fvh_signature,
     FvHeader(U64FromNat(0)), FvHeader(U64FromNat(HeaderLen)),
     FvHeader(U64FromNat(HeaderLen + 2)), FvHeader(U64_MAX)}

PageRecords == [gpa : PageGpas, data : PageDatas]

SeqsUpTo(S, n) == UNION {[1..k -> S] : k \in 0..n}

CfvSizes == {U64FromNat(3), U64FromNat(HeaderLen + 2), U64_MAX}

FileRecords ==
    [type : {FV_FILETYPE_RAW, OtherFileType},
     name : {MIGTD_POLICY_FFS_GUID, MIGTD_POLICY_ISSUER_CHAIN_FFS_GUID},
     data : {<<123, 125>>, <<45>>}]

Fmspcs == {"50806F000000", "00906ED50000"}

ArgsSet == [fmspc : {None} \cup {Some(f) : f \in Fmspcs},
            save_policy : BOOLEAN, save_chain : BOOLEAN]

NoArgs == [fmspc |-> None, save_policy |-> FALSE, save_chain |-> FALSE]

\* an image whose configuration volume is one page at CFV_GPA behind one
\* byte of padding
StdImage ==
    <<[gpa |-> CFV_GPA, data |-> <<1>>],
      [gpa |-> U64FromNat(CFV_GPA_N + 2), data |-> FvHeader(U64FromNat(HeaderLen))]>>

\* a volume holding the policy and its issuer chain
StdVolume ==
    <<[type |-> FV_FILETYPE_RAW, name |-> MIGTD_POLICY_FFS_GUID, data |-> <<123, 125>>],
      [type |-> FV_FILETYPE_RAW, name |-> MIGTD_POLICY_ISSUER_CHAIN_FFS_GUID, data |-> <<45>>]>>

(* ------------------------------- state --------------------------------- *)
VARIABLES
    tool,               \* which binary runs: "igvm" or "policy"
    args,               \* the parsed command line
    overflow_checks,    \* build profile: TRUE panics on overflow, FALSE wraps
    directives,         \* the page-data directives of the image, in file order
    cfv_size,           \* Config size of image_layout.json, a u64
    fv_files,           \* the file records of the configuration volume
    policy_fmspcs,      \* the platform identifiers of the policy's collaterals
    pc,                 \* position of main
    cfv_data,           \* the buffer of extract_cfv_from_igvm
    policy_data,        \* Option: the extracted or read policy bytes
    issuer_chain_data,  \* Option: the extracted or read issuer chain bytes
    saved,              \* the output files written
    verify_args,        \* Option: the arguments verify() was called with
    verified_policy,    \* Option: the collaterals of the verified policy
    stages,             \* the stages main has entered, in order
    exit_code,          \* process exit status, -1 while running
    q_args,             \* quote extractor: the parsed command line
    report_data,        \* quote extractor: Option, the 48 bytes of report data
    attempt,            \* get_td_report_from_vtpm: the loop variable
    events,             \* get_td_report_from_vtpm: its fetches and sleeps, in order
    td_report           \* Option: the TD report get_td_report_from_vtpm returned

vars == <<tool, args, overflow_checks, directives, cfv_size, fv_files, policy_fmspcs,
          pc, cfv_data, policy_data, issuer_chain_data, saved, verify_args,
          verified_policy, stages, exit_code,
          q_args, report_data, attempt, events, td_report>>

\* the state of the quote extractor
vtpm_vars == <<q_args, report_data, attempt, events, td_report>>

\* the state of the two verifiers that their steps change
verifier_vars == <<cfv_data, policy_data, issuer_chain_data, saved, verify_args,
                   verified_policy, stages>>

inputs == <<tool, args, overflow_checks, directives, cfv_size, fv_files, policy_fmspcs>>

InitRun(first) ==
    /\ pc = first
    /\ cfv_data = <<>>
    /\ policy_data = None
    /\ issuer_chain_data = None
    /\ saved = [policy |-> None, chain |-> None]
    /\ verify_args = None
    /\ verified_policy = None
    /\ stages = <<>>
    /\ exit_code = -1
    /\ q_args = [report_data |-> None, verbose |-> FALSE]
    /\ report_data = None
    /\ attempt = 0
    /\ events = <<>>
    /\ td_report = None

\* images of every shape, a standard volume
InitImages ==
    /\ tool = "igvm"
    /\ args = NoArgs
    /\ overflow_checks \in BOOLEAN
    /\ directives \in SeqsUpTo(PageRecords, MaxPages)
    /\ cfv_size \in CfvSizes
    /\ fv_files = StdVolume
    /\ policy_fmspcs = {}
    /\ InitRun("load_config")

\* a standard image, volumes of every shape
InitVolumes ==
    /\ tool = "igvm"
    /\ args = NoArgs
    /\ overflow_checks = TRUE
    /\ directives = StdImage
    /\ cfv_size = U64FromNat(HeaderLen + 2)
    /\ fv_files \in SeqsUpTo(FileRecords, MaxFiles)
    /\ policy_fmspcs = {}
    /\ InitRun("load_config")

\* a standard image and volume, every command line
InitArgs ==
    /\ tool = "igvm"
    /\ args \in ArgsSet
    /\ overflow_checks = TRUE
    /\ directives = StdImage
    /\ cfv_size = U64FromNat(HeaderLen + 2)
    /\ fv_files = StdVolume
    /\ policy_fmspcs \in SUBSET {"50806F000000"}
    /\ InitRun("load_config")

\* the standalone policy verifier
InitPolicyTool ==
    /\ tool = "policy"
    /\ args \in {a \in ArgsSet : ~a.save_policy /\ ~a.save_chain}
    /\ overflow_checks = TRUE
    /\ directives = <<>>
    /\ cfv_size = U64FromNat(0)
    /\ fv_files = <<>>
    /\ policy_fmspcs \in SUBSET {"50806F000000"}
    /\ InitRun("pv_read")

Init == InitImages \/ InitVolumes \/ InitArgs \/ InitPolicyTool

(* ------------------------------ actions -------------------------------- *)
\* main returns Err (exit status 1), the runtime panics (exit status 101),
\* std::process::exit(2) is called, or main returns Ok (exit status 0)
Exit(code) ==
    /\ pc' = "done"
    /\ exit_code' = code

\* main goes on to its next step
Goto(next) ==
    /\ pc' = next
    /\ exit_code' = exit_code

\* the step main has entered and whether it succeeded
Enter(stage, ok) == stages' = Append(stages, [stage |-> stage, ok |-> ok])

ExitOf(r) == IF r.status = "panic" THEN 101 ELSE 1

\* the ? operator on the result of a step
Try(ok, next) == IF ok THEN Goto(next) ELSE Exit(1)

\* steps 1 and 2 of main: read and parse the two JSON files, read the image
LoadConfig ==
    /\ tool = "igvm" /\ pc = "load_config"
    /\ \E ok \in BOOLEAN :
          /\ Enter("load_config", ok)
          /\ Try(ok, "collect")
    /\ UNCHANGED <<vtpm_vars, inputs, cfv_data, policy_data, issuer_chain_data, saved,
                   verify_args, verified_policy>>

\* extract_cfv_from_igvm up to the padding of the collected pages
CollectPages ==
    /\ tool = "igvm" /\ pc = "collect"
    /\ \E parsed \in BOOLEAN :
          LET r == IF parsed THEN CollectRegion(directives, cfv_size, overflow_checks)
                   ELSE Err("Failed to parse IGVM file")
          IN  /\ Enter("reconstruct", r.status = "ok")
              /\ cfv_data' = r.data
              /\ IF r.status = "ok" THEN Goto("resolve") ELSE Exit(ExitOf(r))
    /\ UNCHANGED <<vtpm_vars, inputs, policy_data, issuer_chain_data, saved, verify_args,
                   verified_policy>>

\* extract_cfv_from_igvm from the signature search to its return
Resolve ==
    /\ tool = "igvm" /\ pc = "resolve"
    /\ LET r == ResolveHeader(cfv_data, overflow_checks)
       IN  /\ Enter("resolve", r.status = "ok")
           /\ cfv_data' = r.data
           /\ IF r.status = "ok" THEN Goto("extract_policy") ELSE Exit(ExitOf(r))
    /\ UNCHANGED <<vtpm_vars, inputs, policy_data, issuer_chain_data, saved, verify_args,
                   verified_policy>>

\* step 4 of main
ExtractPolicy ==
    /\ tool = "igvm" /\ pc = "extract_policy"
    /\ LET r == extract_file_from_cfv(fv_files, MIGTD_POLICY_FFS_GUID)
       IN  /\ Enter("extract_policy", r.status = "ok")
           /\ policy_data' = IF r.status = "ok" THEN Some(r.data) ELSE None
           /\ Try(r.status = "ok", "extract_chain")
    /\ UNCHANGED <<vtpm_vars, inputs, cfv_data, issuer_chain_data, saved, verify_args,
                   verified_policy>>

\* step 5 of main
ExtractChain ==
    /\ tool = "igvm" /\ pc = "extract_chain"
    /\ LET r == extract_file_from_cfv(fv_files, MIGTD_POLICY_ISSUER_CHAIN_FFS_GUID)
       IN  /\ Enter("extract_chain", r.status = "ok")
           /\ issuer_chain_data' = IF r.status = "ok" THEN Some(r.data) ELSE None
           /\ Try(r.status = "ok", "save")
    /\ UNCHANGED <<vtpm_vars, inputs, cfv_data, policy_data, saved, verify_args,
                   verified_policy>>

\* mutant of SaveFiles: the issuer chain is written to the policy path
SaveFilesSwapped ==
    /\ tool = "igvm" /\ pc = "save"
    /\ \E wrote_policy, wrote_chain \in BOOLEAN :
          LET try_policy == args.save_policy
              try_chain == args.save_chain /\ (try_policy => wrote_policy)
              ok == (try_policy => wrote_policy) /\ (try_chain => wrote_chain)
          IN  /\ saved' = [policy |-> IF try_policy /\ wrote_policy
                                      THEN issuer_chain_data ELSE None,
                           chain |-> IF try_chain /\ wrote_chain
                                     THEN issuer_chain_data ELSE None]
              /\ Enter("save", ok)
              /\ Try(ok, "deserialize")
    /\ UNCHANGED <<vtpm_vars, inputs, cfv_data, policy_data, issuer_chain_data, verify_args,
                   verified_policy>>

\* the two optional fs::write calls; a write that fails ends main
SaveFiles ==
    /\ tool = "igvm" /\ pc = "save"
    /\ \E wrote_policy, wrote_chain \in BOOLEAN :
          LET try_policy == args.save_policy
              try_chain == args.save_chain /\ (try_policy => wrote_policy)
              ok == (try_policy => wrote_policy) /\ (try_chain => wrote_chain)
          IN  /\ saved' = [policy |-> IF try_policy /\ wrote_policy
                                      THEN policy_data ELSE None,
                           chain |-> IF try_chain /\ wrote_chain
                                     THEN issuer_chain_data ELSE None]
              /\ Enter("save", ok)
              /\ Try(ok, "deserialize")
    /\ UNCHANGED <<vtpm_vars, inputs, cfv_data, policy_data, issuer_chain_data, verify_args,
                   verified_policy>>

\* mutant of Deserialize: the error of deserialize_from_json is dropped
DeserializeUnchecked ==
    /\ tool = "igvm" /\ pc = "deserialize"
    /\ \E ok \in BOOLEAN :
          /\ Enter("deserialize", ok)
          /\ Goto("verify")
    /\ UNCHANGED <<vtpm_vars, inputs, cfv_data, policy_data, issuer_chain_data, saved,
                   verify_args, verified_policy>>

\* RawPolicyData::deserialize_from_json(&policy_data)
Deserialize ==
    /\ tool = "igvm" /\ pc = "deserialize"
    /\ \E ok \in BOOLEAN :
          /\ Enter("deserialize", ok)
          /\ Try(ok, "verify")
    /\ UNCHANGED <<vtpm_vars, inputs, cfv_data, policy_data, issuer_chain_data, saved,
                   verify_args, verified_policy>>

\* raw_policy.verify(&issuer_chain_data, None, None)
Verify ==
    /\ tool = "igvm" /\ pc = "verify"
    /\ verify_args' = Some([policy |-> policy_data, chain |-> issuer_chain_data])
    /\ \E ok \in BOOLEAN :
          /\ Enter("verify", ok)
          /\ verified_policy' = IF ok THEN Some([collaterals |-> policy_fmspcs])
                                ELSE None
          /\ Try(ok, "root_ca")
    /\ UNCHANGED <<vtpm_vars, inputs, cfv_data, policy_data, issuer_chain_data, saved>>

\* crypto::pem_cert_to_der(root_ca.as_bytes())
RootCa ==
    /\ tool = "igvm" /\ pc = "root_ca"
    /\ \E ok \in BOOLEAN :
          /\ Enter("root_ca", ok)
          /\ Try(ok, "check_fmspc")
    /\ UNCHANGED <<vtpm_vars, inputs, cfv_data, policy_data, issuer_chain_data, saved,
                   verify_args, verified_policy>>

\* collaterals.get_tcb_with_fmspc(&fmspc).is_some() / collaterals.contains_key(&fmspc)
ContainsFmspc(policy, fmspc) == fmspc \in policy.collaterals

\* mutant of ExitCodeOfCheck: an absent FMSPC is returned as an error
ExitCodeOfCheckAsError(fmspc, policy) ==
    IF fmspc # None /\ ~ContainsFmspc(policy, fmspc[1]) THEN 1 ELSE 0

\* the optional FMSPC check and the return of main
ExitCodeOfCheck(fmspc, policy) ==
    IF fmspc # None /\ ~ContainsFmspc(policy, fmspc[1]) THEN 2 ELSE 0

\* steps 7 and 8 of main
CheckFmspc ==
    /\ tool = "igvm" /\ pc = "check_fmspc"
    /\ Exit(ExitCodeOfCheck(args.fmspc, verified_policy[1]))
    /\ UNCHANGED <<vtpm_vars, inputs, cfv_data, policy_data, issuer_chain_data, saved,
                   verify_args, verified_policy, stages>>

\* policy verifier: the two fs::read calls
PvRead ==
    /\ tool = "policy" /\ pc = "pv_read"
    /\ \E ok \in BOOLEAN :
          /\ Enter("read", ok)
          /\ policy_data' = IF ok THEN Some(<<123, 125>>) ELSE None
          /\ issuer_chain_data' = IF ok THEN Some(<<45>>) ELSE None
          /\ Try(ok, "pv_deserialize")
    /\ UNCHANGED <<vtpm_vars, inputs, cfv_data, saved, verify_args, verified_policy>>

\* policy verifier: RawPolicyData::deserialize_from_json(&policy_bytes)
PvDeserialize ==
    /\ tool = "policy" /\ pc = "pv_deserialize"
    /\ \E ok \in BOOLEAN :
          /\ Enter("deserialize", ok)
          /\ Try(ok, "pv_verify")
    /\ UNCHANGED <<vtpm_vars, inputs, cfv_data, policy_data, issuer_chain_data, saved,
                   verify_args, verified_policy>>

\* policy verifier: policy.verify(&cert_chain_bytes, None, None)
PvVerify ==
    /\ tool = "policy" /\ pc = "pv_verify"
    /\ verify_args' = Some([policy |-> policy_data, chain |-> issuer_chain_data])
    /\ \E ok \in BOOLEAN :
          /\ Enter("verify", ok)
          /\ verified_policy' = IF ok THEN Some([collaterals |-> policy_fmspcs])
                                ELSE None
          /\ Try(ok, "pv_check_fmspc")
    /\ UNCHANGED <<vtpm_vars, inputs, cfv_data, policy_data, issuer_chain_data, saved>>

\* policy verifier: the optional FMSPC check and the return of main
PvCheckFmspc ==
    /\ tool = "policy" /\ pc = "pv_check_fmspc"
    /\ Exit(ExitCodeOfCheck(args.fmspc, verified_policy[1]))
    /\ UNCHANGED <<vtpm_vars, inputs, cfv_data, policy_data, issuer_chain_data, saved,
                   verify_args, verified_policy, stages>>

Next ==
    \/ LoadConfig
    \/ CollectPages
    \/ Resolve
    \/ ExtractPolicy
    \/ ExtractChain
    \/ SaveFiles
    \/ Deserialize
    \/ Verify
    \/ RootCa
    \/ CheckFmspc
    \/ PvRead
    \/ PvDeserialize
    \/ PvVerify
    \/ PvCheckFmspc

Spec == Init /\ [][Next]_vars

(* ------------------------- the quote extractor ------------------------- *)
\* let max_retries = 3
max_retries == 3

\* the outcome of hex::decode on --report-data: an error or the decoded bytes
ReportDataArgs ==
    {[hex_ok |-> FALSE, bytes |-> <<>>],
     [hex_ok |-> TRUE, bytes |-> [i \in 1..47 |-> 7]],
     [hex_ok |-> TRUE, bytes |-> [i \in 1..48 |-> 7]],
     [hex_ok |-> TRUE, bytes |-> [i \in 1..48 |-> 255]]}

\* the reports the vTPM can hand out
VtpmReports == {"report_a", "report_b"}

InitQuoteTool ==
    /\ tool = "quote"
    /\ args = NoArgs
    /\ overflow_checks = TRUE
    /\ directives = <<>>
    /\ cfv_size = U64FromNat(0)
    /\ fv_files = <<>>
    /\ policy_fmspcs = {}
    /\ pc = "qx_args"
    /\ cfv_data = <<>>
    /\ policy_data = None
    /\ issuer_chain_data = None
    /\ saved = [policy |-> None, chain |-> None]
    /\ verify_args = None
    /\ verified_policy = None
    /\ stages = <<>>
    /\ exit_code = -1
    /\ q_args \in [report_data : {None} \cup {Some(d) : d \in ReportDataArgs},
                   verbose : BOOLEAN]
    /\ report_data = None
    /\ attempt = 0
    /\ events = <<>>
    /\ td_report = None

\* main of the quote extractor up to the call of get_td_report_from_vtpm
QxParseArgs ==
    /\ tool = "quote" /\ pc = "qx_args"
    /\ LET ok == q_args.report_data = None
                 \/ (q_args.report_data[1].hex_ok /\ Len(q_args.report_data[1].bytes) = 48)
       IN  /\ report_data' = IF ok /\ q_args.report_data # None
                             THEN Some(q_args.report_data[1].bytes) ELSE None
           /\ Try(ok, "vtpm_enter")
    /\ UNCHANGED <<inputs, verifier_vars, q_args, attempt, events, td_report>>

\* report_data.unwrap_or(&default_report_data), padded to 64 bytes
report_data_64(data) == (IF data = None THEN Zeros(48) ELSE data[1]) \o Zeros(16)

\* mutant of ShouldSleep: the delay follows every failed attempt
ShouldSleepAlways(n) == n <= max_retries

\* if attempt < max_retries { sleep }
ShouldSleep(n) == n < max_retries

\* the range 1..=max_retries still has an element after n
LoopContinues(n) == n + 1 <= max_retries

\* the end of a failed iteration: the next attempt, or the bail! behind the loop
NextIteration ==
    IF LoopContinues(attempt)
    THEN attempt' = attempt + 1 /\ Goto("vtpm_fetch")
    ELSE attempt' = attempt /\ Goto("vtpm_bail")

\* get_td_report_from_vtpm up to the first iteration of its loop
VtpmEnter ==
    /\ tool = "quote" /\ pc = "vtpm_enter"
    /\ IF 1 <= max_retries
       THEN attempt' = 1 /\ Goto("vtpm_fetch")
       ELSE attempt' = attempt /\ Goto("vtpm_bail")
    /\ UNCHANGED <<inputs, verifier_vars, q_args, report_data, events, td_report>>

\* one call of vtpm::get_report_with_report_data and the match on its result
VtpmFetch ==
    /\ tool = "quote" /\ pc = "vtpm_fetch"
    /\ \E fetched \in {None} \cup {Some(r) : r \in VtpmReports} :
          /\ events' = Append(events, [ev |-> "fetch", attempt |-> attempt,
                                       ok |-> fetched # None,
                                       data |-> report_data_64(report_data)])
          /\ td_report' = fetched
          /\ IF fetched # None
             THEN attempt' = attempt /\ Goto("vtpm_convert")
             ELSE IF ShouldSleep(attempt)
                  THEN attempt' = attempt /\ Goto("vtpm_sleep")
                  ELSE NextIteration
    /\ UNCHANGED <<inputs, verifier_vars, q_args, report_data>>

\* std::thread::sleep(Duration::from_secs(5)) and the end of the iteration
VtpmSleep ==
    /\ tool = "quote" /\ pc = "vtpm_sleep"
    /\ events' = Append(events, [ev |-> "sleep", attempt |-> attempt, ok |-> TRUE,
                                 data |-> <<>>])
    /\ NextIteration
    /\ UNCHANGED <<inputs, verifier_vars, q_args, report_data, td_report>>

\* HclReport::new(report)? and TdReport::try_from(hcl_report)?, then return
VtpmConvert ==
    /\ tool = "quote" /\ pc = "vtpm_convert"
    /\ \E hcl_ok, td_ok \in BOOLEAN :
          /\ td_report' = IF hcl_ok /\ td_ok THEN td_report ELSE None
          /\ Try(hcl_ok /\ td_ok, "qx_extract")
    /\ UNCHANGED <<inputs, verifier_vars, q_args, report_data, attempt, events>>

\* anyhow::bail!("Failed to get TD report after {} attempts")
VtpmBail ==
    /\ tool = "quote" /\ pc = "vtpm_bail"
    /\ Exit(1)
    /\ UNCHANGED <<inputs, verifier_vars, vtpm_vars>>

\* extract_quote_data and serde_json::to_string_pretty
QxExtract ==
    /\ tool = "quote" /\ pc = "qx_extract"
    /\ \E ok \in BOOLEAN : Try(ok, "qx_write")
    /\ UNCHANGED <<inputs, verifier_vars, vtpm_vars>>

\* fs::write(&args.output_json, json) and the return of main
QxWrite ==
    /\ tool = "quote" /\ pc = "qx_write"
    /\ \E ok \in BOOLEAN : Exit(IF ok THEN 0 ELSE 1)
    /\ UNCHANGED <<inputs, verifier_vars, vtpm_vars>>

NextQuote ==
    \/ QxParseArgs
    \/ VtpmEnter
    \/ VtpmFetch
    \/ VtpmSleep
    \/ VtpmConvert
    \/ VtpmBail
    \/ QxExtract
    \/ QxWrite

\* the quote extractor is a sequential program: a step that can be taken is taken
SpecQuote == InitQuoteTool /\ [][NextQuote]_vars /\ WF_vars(NextQuote)

(* ------------------------ vocabulary of the claims --------------------- *)
StageRan(name) == \E i \in 1..Len(stages) : stages[i].stage = name

StageOk(name) == \E i \in 1..Len(stages) : stages[i].stage = name /\ stages[i].ok

\* the buffer the page collection hands to the header resolver
Region == CollectRegion(directives, cfv_size, overflow_checks).data

\* the signature "_FVH" stands at 0-based offset i of b
Occurs(b, i) ==
    /\ i + 4 <= Len(b)
    /\ b[i + 1] = 95 /\ b[i + 2] = 70 /\ b[i + 3] = 86 /\ b[i + 4] = 72

\* K, the offset of the signature in the header (0x28)
SigK == 40

SigAbsent(b) == \A i \in 0..Len(b) : ~Occurs(b, i)

FirstSig(b) == CHOOSE i \in 0..Len(b) : Occurs(b, i) /\ \A j \in 0..(i - 1) : ~Occurs(b, j)

\* the header start h of a buffer whose first signature is at s >= K
HeaderStart(b) == FirstSig(b) - SigK

\* declaredLen: the little-endian u64 at h + 0x20
DeclaredLen(b, h) == from_le_bytes(SubSeq(b, h + 33, h + 40))

\* h + declaredLen <= buffer length, over the naturals
Fits(b, h) ==
    LET sum == U64Add(U64FromNat(h), DeclaredLen(b, h))
    IN  ~sum.overflow /\ U64Leq(sum.val, U64FromNat(Len(b)))

HeaderFound(b) == ~SigAbsent(b) /\ FirstSig(b) >= SigK

(* -------------------------------- C1 ----------------------------------- *)
\* C1: when the page collection succeeds (a page lies exactly at the start
\* GPA), the reconstructed buffer has exactly cfv_size bytes.
C1_ExactLength ==
    (tool = "igvm" /\ pc = "resolve") => U64FromNat(Len(cfv_data)) = cfv_size

(* -------------------------------- C2 ----------------------------------- *)
\* bytes from the start GPA to the page
PageOffset(p) == U64ToNat(U64Sub(p.gpa, CFV_GPA))

\* the page's GPA lies in [start, start + length)
Selected(p) ==
    /\ U64Leq(CFV_GPA, p.gpa)
    /\ U64Less(U64Sub(p.gpa, CFV_GPA), cfv_size)

SelectedPages == {i \in 1..Len(directives) : Selected(directives[i])}

\* 0-based position k of the region is covered by page i
Covers(i, k) ==
    /\ PageOffset(directives[i]) <= k
    /\ k < PageOffset(directives[i]) + Len(directives[i].data)

\* the selected pages do not overlap and end inside the region
WellLaidOut ==
    /\ \A i \in SelectedPages :
          U64Leq(U64FromNat(PageOffset(directives[i]) + Len(directives[i].data)), cfv_size)
    /\ \A i, j \in SelectedPages :
          i # j => ~\E k \in 0..Len(cfv_data) : Covers(i, k) /\ Covers(j, k)

\* C2: every selected page has its bytes at offset (GPA - start) of the
\* reconstructed buffer and every position no selected page covers is zero.
C2_PlacedAtOffset ==
    (tool = "igvm" /\ pc = "resolve" /\ WellLaidOut) =>
        /\ \A i \in SelectedPages : \A j \in 1..Len(directives[i].data) :
              /\ PageOffset(directives[i]) + j <= Len(cfv_data)
              /\ cfv_data[PageOffset(directives[i]) + j] = directives[i].data[j]
        /\ \A k \in 0..(Len(cfv_data) - 1) :
              (~\E i \in SelectedPages : Covers(i, k)) => cfv_data[k + 1] = 0

(* -------------------------------- C3 ----------------------------------- *)
HasPageAtStart == \E i \in 1..Len(directives) : directives[i].gpa = CFV_GPA

\* C3: with no page at exactly the start GPA the reconstruction fails with
\* an error and hands no buffer on.
C3_AbsentRegionFails ==
    (StageRan("reconstruct") /\ ~HasPageAtStart) =>
        /\ ~StageOk("reconstruct")
        /\ pc = "done" /\ exit_code = 1
        /\ cfv_data = <<>>

\* the reconstruction has failed on an image whose only pages lie above the
\* start GPA, inside the requested range
C3_Witness ==
    /\ StageRan("reconstruct") /\ pc = "done"
    /\ directives # <<>> /\ ~HasPageAtStart
    /\ \E i \in 1..Len(directives) :
          Selected(directives[i]) /\ directives[i].data # <<>>

(* -------------------------------- C4 ----------------------------------- *)
\* C4: when the first signature is at s >= K the resolver returns the bytes
\* [h, h + declaredLen) if that fits the buffer and the bytes [h, end) if not.
C4_ResolvedSlice ==
    (StageRan("resolve") /\ HeaderFound(Region)) =>
        LET h == HeaderStart(Region)
        IN  /\ StageOk("resolve")
            /\ cfv_data = IF Fits(Region, h)
                          THEN SubSeq(Region, h + 1,
                                      h + U64ToNat(DeclaredLen(Region, h)))
                          ELSE SubSeq(Region, h + 1, Len(Region))

(* -------------------------------- C5 ----------------------------------- *)
\* C5: when the signature is absent, or its first occurrence is before
\* offset K, the resolver succeeds and returns the buffer unchanged.
C5_NoHeaderUnchanged ==
    (StageRan("resolve") /\ (SigAbsent(Region) \/ \E i \in 0..(SigK - 1) : Occurs(Region, i))) =>
        /\ StageOk("resolve")
        /\ cfv_data = Region

\* the resolver has run on a buffer with one signature before K and another
\* at or after K
C5_Witness ==
    /\ StageOk("resolve")
    /\ \E i \in 0..(SigK - 1) : Occurs(Region, i)
    /\ \E i \in SigK..Len(Region) : Occurs(Region, i)

(* -------------------------------- C6 ----------------------------------- *)
\* the resolver took the exact slice [h, h + declaredLen)
ExactSliceTaken ==
    /\ StageOk("resolve")
    /\ HeaderFound(Region)
    /\ Fits(Region, HeaderStart(Region))

\* C6: a buffer whose header starts at 0 and declares the buffer's own
\* length is returned unchanged, and resolving an exact-slice output again
\* returns that output.
C6_Idempotent ==
    /\ (StageRan("resolve") /\ Occurs(Region, SigK)
            /\ DeclaredLen(Region, 0) = U64FromNat(Len(Region))) =>
          (StageOk("resolve") /\ cfv_data = Region)
    /\ ExactSliceTaken => ResolveHeader(cfv_data, overflow_checks) = Ok(cfv_data)

\* the resolver has run on a buffer that starts with its header and whose
\* declared length is the buffer length
C6_Witness ==
    /\ StageOk("resolve")
    /\ Occurs(Region, SigK)
    /\ DeclaredLen(Region, 0) = U64FromNat(Len(Region))

(* -------------------------------- C7 ----------------------------------- *)
\* the records whose type tag is RAW and whose identifier is guid
Matching(guid) ==
    {i \in 1..Len(fv_files) :
        fv_files[i].type = FV_FILETYPE_RAW /\ fv_files[i].name = guid}

FirstOf(S) == CHOOSE i \in S : \A j \in S : i <= j

ExtractionIsFirstMatch(stage, guid, result) ==
    StageRan(stage) =>
        IF Matching(guid) = {}
        THEN ~StageOk(stage) /\ pc = "done" /\ exit_code = 1 /\ result = None
        ELSE StageOk(stage) /\ result = Some(fv_files[FirstOf(Matching(guid))].data)

\* C7: an extraction returns the payload of the first record whose type tag
\* is RAW and whose identifier is the requested one, and fails when no
\* record matches both.
C7_FirstMatch ==
    /\ ExtractionIsFirstMatch("extract_policy", MIGTD_POLICY_FFS_GUID, policy_data)
    /\ ExtractionIsFirstMatch("extract_chain", MIGTD_POLICY_ISSUER_CHAIN_FFS_GUID,
                              issuer_chain_data)

\* the policy was extracted from a volume whose first record carries the
\* policy identifier under another type tag
C7_Witness ==
    /\ StageOk("extract_policy")
    /\ Len(fv_files) = 2
    /\ fv_files[1].name = MIGTD_POLICY_FFS_GUID /\ fv_files[1].type # FV_FILETYPE_RAW
    /\ fv_files[2].name = MIGTD_POLICY_FFS_GUID /\ fv_files[2].type = FV_FILETYPE_RAW
    /\ fv_files[1].data # fv_files[2].data
    /\ policy_data = Some(fv_files[2].data)

(* -------------------------------- C8 ----------------------------------- *)
Pipeline ==
    <<"reconstruct", "resolve", "extract_policy", "extract_chain",
      "deserialize", "verify", "root_ca">>

IsPipelineStage(s) == \E i \in 1..Len(Pipeline) : Pipeline[i] = s.stage

PipelineStages == SelectSeq(stages, IsPipelineStage)

\* C8: the stages run in pipeline order, each at most once and only after
\* every earlier step succeeded; a failed step is the last one; verify gets
\* the policy and the issuer chain extracted from the one volume.
C8_FailStopOrdered ==
    tool = "igvm" =>
        /\ Len(PipelineStages) <= Len(Pipeline)
        /\ \A i \in 1..Len(PipelineStages) : PipelineStages[i].stage = Pipeline[i]
        /\ \A i \in 1..(Len(stages) - 1) : stages[i].ok
        /\ (stages # <<>> /\ ~stages[Len(stages)].ok) =>
              (pc = "done" /\ exit_code \in {1, 101})
        /\ verify_args # None =>
              /\ Matching(MIGTD_POLICY_FFS_GUID) # {}
              /\ Matching(MIGTD_POLICY_ISSUER_CHAIN_FFS_GUID) # {}
              /\ verify_args[1].policy =
                    Some(fv_files[FirstOf(Matching(MIGTD_POLICY_FFS_GUID))].data)
              /\ verify_args[1].chain =
                    Some(fv_files[FirstOf(Matching(MIGTD_POLICY_ISSUER_CHAIN_FFS_GUID))].data)

\* the run stopped at a failed deserialization
C8_Witness ==
    /\ tool = "igvm" /\ pc = "done"
    /\ StageRan("deserialize") /\ ~StageOk("deserialize")

(* -------------------------------- C9 ----------------------------------- *)
AllStagesOk == \A i \in 1..Len(stages) : stages[i].ok

\* the last step before the FMSPC check has run
RanToCheck ==
    IF tool = "igvm" THEN StageRan("root_ca") ELSE StageRan("verify")

FmspcRequestedAbsent == args.fmspc # None /\ args.fmspc[1] \notin policy_fmspcs

HasLaterDuplicate(i) ==
    \E j \in (i + 1)..Len(directives) :
        /\ directives[j].gpa = directives[i].gpa
        /\ directives[i].data # <<>> /\ directives[j].data # <<>>

\* the page table with only the last-inserted page of every GPA
RECURSIVE LastWins(_)
LastWins(dirs) ==
    IF dirs = <<>> THEN <<>>
    ELSE IF \E j \in 2..Len(dirs) : dirs[j].gpa = Head(dirs).gpa
         THEN LastWins(Tail(dirs))
         ELSE <<Head(dirs)>> \o LastWins(Tail(dirs))

\* C10: with two pages at one GPA inside the range, the buffer is the one
\* reconstructed from the last-inserted page alone.
C10_LastWins ==
    (tool = "igvm" /\ pc = "resolve"
        /\ \E i \in SelectedPages : HasLaterDuplicate(i)) =>
        cfv_data = CollectRegion(LastWins(directives), cfv_size, overflow_checks).data

(* -------------------------------- C11 ---------------------------------- *)
Fetches == {i \in 1..Len(events) : events[i].ev = "fetch"}

Sleeps == {i \in 1..Len(events) : events[i].ev = "sleep"}

\* get_td_report_from_vtpm has returned (main ends on its error)
VtpmReturned == pc \in {"qx_extract", "qx_write", "done"} /\ events # <<>>

\* the fetches and delays so far follow the retry contract
C11_RetryContract ==
    /\ Cardinality(Fetches) <= 3
    /\ \A i \in Fetches : events[i].ok => \A j \in (i + 1)..Len(events) : j \notin Fetches
    /\ \A i \in Sleeps :
          /\ i > 1 /\ events[i - 1].ev = "fetch" /\ ~events[i - 1].ok
          /\ i < Len(events) => events[i + 1].ev = "fetch"
    /\ VtpmReturned =>
          /\ events[Len(events)].ev = "fetch"
          /\ td_report = None => exit_code = 1
          /\ (\A i \in Fetches : ~events[i].ok) =>
                (Cardinality(Fetches) = 3 /\ td_report = None /\ exit_code = 1)

\* C11: the fetch is attempted at most 3 times and not again after a
\* success, a failed conversion is returned at once, the delay stands only
\* between a failed attempt and the next one, three failures return an
\* error, and the function always returns.
C11_BoundedRetry == []C11_RetryContract /\ <>(pc = "done")

\* the third fetch failed and the function returned its error
C11_Witness ==
    /\ tool = "quote" /\ pc = "done" /\ exit_code = 1
    /\ Cardinality(Fetches) = 3 /\ Cardinality(Sleeps) = 2
    /\ \A i \in Fetches : ~events[i].ok

(* -------------------------------- C12 ---------------------------------- *)
\* C12: no header and no region length makes the image verifier abort: the
\* additions start + length and h + declaredLen never overflow or wrap into
\* an invalid slice, and with a header found the resolver returns a slice
\* of the buffer that starts at h.
C12_NeverAborts ==
    tool = "igvm" =>
        /\ exit_code # 101
        /\ (StageRan("resolve") /\ HeaderFound(Region)) =>
              /\ StageOk("resolve")
              /\ \E e \in HeaderStart(Region)..Len(Region) :
                    cfv_data = SubSeq(Region, HeaderStart(Region) + 1, e)

(* -------------------------------- C13 ---------------------------------- *)
BothExtracted == policy_data # None /\ issuer_chain_data # None

NothingSaved == saved.policy = None /\ saved.chain = None

\* what is in the files is what was extracted
SavedVerbatim ==
    /\ saved.policy # None => saved.policy = policy_data
    /\ saved.chain # None => saved.chain = issuer_chain_data

\* C13 as stated: once main is past the save step a file is there iff its
\* path was given (both payloads being extracted); before that step, and
\* when an extraction fails, no file is written; the files hold the payloads
\* and stay when deserialization or verification fails.
C13_SavedOriginal ==
    tool = "igvm" =>
        /\ ~StageRan("save") => (NothingSaved /\ ~StageRan("deserialize"))
        /\ StageRan("save") =>
              /\ BothExtracted
              /\ saved.policy # None <=> args.save_policy
              /\ saved.chain # None <=> args.save_chain
        /\ SavedVerbatim

\* C13 amended: a file is there only if its path was given, and it is there
\* whenever the save step succeeded with its path given.
C13_Saved ==
    tool = "igvm" =>
        /\ ~StageRan("save") => (NothingSaved /\ ~StageRan("deserialize"))
        /\ StageRan("save") =>
              /\ BothExtracted
              /\ saved.policy # None => args.save_policy
              /\ saved.chain # None => args.save_chain
        /\ StageOk("save") =>
              /\ args.save_policy => saved.policy # None
              /\ args.save_chain => saved.chain # None
        /\ SavedVerbatim

\* both files are there although the signature verification failed
C13_Witness ==
    /\ tool = "igvm" /\ pc = "done"
    /\ StageRan("verify") /\ ~StageOk("verify")
    /\ saved.policy # None /\ saved.chain # None

====
